---- MODULE Spec2Model ----
(***************************************************************************)
(* Duplicate-image checker (VS Code extension).  Two builds of the command *)
(* handler exist in the repository:                                        *)
(*   variant "A"  src/src/extension.ts   (searchPaths are sub-directories  *)
(*                of the workspace, each walked recursively)               *)
(*   variant "B"  src/unnamed/part_000   (searchPaths are glob patterns    *)
(*                resolved by the host; no pattern = recursive walk of the *)
(*                workspace root)                                          *)
(* File names are sequences of one-character strings, paths are sequences  *)
(* of names (absolute, from the filesystem root <<>>).                     *)
(***************************************************************************)
EXTENDS Integers, Sequences, FiniteSets

\* ------------------------------------------------------------------ bounds
MaxSearchPaths == 2
MaxFaults == 1
MaxSame == 2

\* ------------------------------------------------------------ characters
Upper == <<"A","B","C","D","E","F","G","H","I","J","K","L","M",
           "N","O","P","Q","R","S","T","U","V","W","X","Y","Z">>
Lower == <<"a","b","c","d","e","f","g","h","i","j","k","l","m",
           "n","o","p","q","r","s","t","u","v","w","x","y","z">>

LowerChar(c) ==
  IF \E i \in 1..Len(Upper) : Upper[i] = c
    THEN Lower[CHOOSE i \in 1..Len(Upper) : Upper[i] = c]
    ELSE c

\* String.prototype.toLowerCase
toLowerCase(s) == [i \in 1..Len(s) |-> LowerChar(s[i])]

\* String.prototype.startsWith('.')
startsWithDot(s) == Len(s) > 0 /\ s[1] = "."

\* path.extname of one name: from the last '.' to the end; empty when there
\* is no '.', or the only '.' is the first character, or the name is "..".
extname(name) ==
  LET dots == {i \in 1..Len(name) : name[i] = "."}
      last == CHOOSE i \in dots : \A j \in dots : j <= i
  IN  IF dots = {} \/ last = 1 \/ name = <<".", ".">>
        THEN <<>>
        ELSE SubSeq(name, last, Len(name))

\* path.extname of a path: the extension of its last component.
extnameOfPath(p) == IF p = <<>> THEN <<>> ELSE extname(p[Len(p)])

\* Array.prototype.includes on a list of strings
includes(list, x) == \E i \in 1..Len(list) : list[i] = x

\* Array.prototype.map(ext => ext.toLowerCase())
normalizedExtensions(exts) == [i \in 1..Len(exts) |-> toLowerCase(exts[i])]

\* ----------------------------------------------------------------- names
n_w == <<"w">>
n_o == <<"o">>
n_s == <<"s">>
n_d == <<"d">>
n_node_modules == <<"n","o","d","e","_","m","o","d","u","l","e","s">>
n_dotg == <<".","g">>
n_a_png == <<"a",".","p","n","g">>
n_B_PNG == <<"B",".","P","N","G">>
n_n_txt == <<"n",".","t","x","t">>
n_doth_png == <<".","h",".","p","n","g">>
n_c_png == <<"c",".","p","n","g">>
n_k_png == <<"k",".","p","n","g">>
n_e_png == <<"e",".","p","n","g">>
n_m_png == <<"m",".","p","n","g">>
n_g_png == <<"g",".","p","n","g">>
n_t_png == <<"t",".","p","n","g">>
n_z_png == <<"z",".","p","n","g">>
star2 == <<"*","*">>
star_png == <<"*",".","p","n","g">>

e_png == <<".","p","n","g">>
e_PNG == <<".","P","N","G">>
e_jpg == <<".","j","p","g">>
e_jpeg == <<".","j","p","e","g">>
e_gif == <<".","g","i","f">>
e_bmp == <<".","b","m","p">>
e_webp == <<".","w","e","b","p">>

\* The built-in list used when the setting is absent.
DefaultExtensions == <<e_png, e_jpg, e_jpeg, e_gif, e_bmp, e_webp>>

\* ------------------------------------------------------- the file system
\* workspaceFolders[0].uri.fsPath
workspaceRoot == <<n_w>>

Node(p, k) == [path |-> p, kind |-> k]

\* The fixture tree, in the listing order of the file system.  kind is
\* "dir", "file" (regular file) or "link" (symbolic link to a regular file).
NodeSeq == <<
  Node(<<n_w>>, "dir"),
  Node(<<n_w, n_a_png>>, "file"),
  Node(<<n_w, n_B_PNG>>, "file"),
  Node(<<n_w, n_n_txt>>, "file"),
  Node(<<n_w, n_doth_png>>, "file"),
  Node(<<n_w, n_s>>, "dir"),
  Node(<<n_w, n_s, n_c_png>>, "file"),
  Node(<<n_w, n_s, n_k_png>>, "link"),
  Node(<<n_w, n_s, n_d>>, "dir"),
  Node(<<n_w, n_s, n_d, n_e_png>>, "file"),
  Node(<<n_w, n_node_modules>>, "dir"),
  Node(<<n_w, n_node_modules, n_m_png>>, "file"),
  Node(<<n_w, n_dotg>>, "dir"),
  Node(<<n_w, n_dotg, n_g_png>>, "file"),
  Node(<<n_o>>, "dir"),
  Node(<<n_o, n_t_png>>, "file") >>

Nodes == {NodeSeq[i] : i \in 1..Len(NodeSeq)}
Paths == {n.path : n \in Nodes}
KindOf(p) == (CHOOSE n \in Nodes : n.path = p).kind
FilePaths == {n.path : n \in {m \in Nodes : m.kind # "dir"}}

IsPrefix(a, b) == Len(a) <= Len(b) /\ SubSeq(b, 1, Len(a)) = a
Reverse(s) == [i \in 1..Len(s) |-> s[Len(s) + 1 - i]]


\* --------------------------------------------------------------- inputs
Absent == [present |-> FALSE, fsPath |-> <<>>]
Uri(p) == [present |-> TRUE, fsPath |-> p]

\* The files passed as the command's argument: an image outside the
\* workspace, one inside node_modules, one with an upper-case extension, a
\* text file and a path that does not exist.
TargetPool == { <<n_o, n_t_png>>, <<n_w, n_node_modules, n_m_png>>,
                <<n_w, n_B_PNG>>, <<n_w, n_n_txt>>, <<n_w, n_z_png>> }

\* (uri argument, active editor document) of one invocation; the image in
\* the workspace root is the document of the active editor.
Invocations ==
  {[uri |-> Uri(p), editor |-> Absent] : p \in TargetPool}
    \cup {[uri |-> Absent, editor |-> Uri(<<n_w, n_a_png>>)],
          [uri |-> Absent, editor |-> Absent]}

\* The imageDupChecker.imageExtensions setting: absent, or a list.
ExtSettings == { [set |-> FALSE, value |-> <<>>],
                 [set |-> TRUE, value |-> <<e_png>>],
                 [set |-> TRUE, value |-> <<e_PNG>>] }

\* The imageDupChecker.searchPaths setting is a list of strings, each given
\* here by its '/'-separated segments.  Variant A reads them as directories
\* below the workspace root ("s", "s/d", "node_modules", and the glob
\* "**/*.png", which names no directory); variant B reads them as globs
\* ("**/*.png", "s/**", "s/d/**", "**").
SearchPool(v) ==
  IF v = "A"
    THEN { <<n_s>>, <<n_s, n_d>>, <<n_node_modules>>, <<star2, star_png>> }
    ELSE { <<star2, star_png>>, <<n_s, star2>>, <<n_s, n_d, star2>>, <<star2>> }

SeqsUpTo(S, n) == UNION {[1..k -> S] : k \in 0..n}

\* Files that may share one content, paths whose open/readdir may fail,
\* patterns whose resolution may fail.
SamePool == { <<n_w, n_a_png>>, <<n_w, n_s, n_c_png>>, <<n_w, n_s, n_d, n_e_png>> }
DeniedPool == { <<n_w, n_a_png>>, <<n_w, n_s>> }
BadPatPool == { <<star2, star_png>> }

VARIABLES
  variant,        \* "A" (src/src/extension.ts) or "B" (src/unnamed/part_000)
  invocation,     \* the uri argument and the active editor
  hasWorkspace,   \* workspaceFolders is non-empty
  extSetting,     \* configured imageExtensions
  searchPaths,    \* configured searchPaths
  order,          \* enumeration order of readdir / findFiles: "fwd" or "rev"
  same,           \* files holding the same bytes
  denied,         \* paths that cannot be opened / listed
  badPats,        \* patterns findFiles rejects
  pc,             \* position of the command handler
  uri,            \* the handler's uri after the editor fallback
  targetMD5,      \* digest of the target, -1 before it is computed
  rootIdx,        \* index of the search root / pattern being processed
  inRoot,         \* a scanImageFiles call / a pattern's result loop is running
  stack,          \* scanDirectory activations, innermost last
  files,          \* findFiles results not yet visited
  images,         \* the images array of the running scan function
  allImages,      \* the scan result the handler holds
  duplicates,     \* findDuplicates result
  items,          \* quickPick.items
  outcome,        \* what the handler reported
  channel,        \* "error" / "info" / "quickpick" / "none"
  checks,         \* validation checks performed so far
  targetOpened,   \* the target file was opened for hashing
  dirsRead,       \* directories passed to readdir
  hashed,         \* candidate files passed to calculateMD5 by a walker
  globbed,        \* patterns passed to findFiles
  steps           \* number of handler steps taken so far

inputs == <<variant, invocation, hasWorkspace, extSetting, searchPaths, order,
            same, denied, badPats>>
walk == <<rootIdx, inRoot, stack, files, images, allImages>>
result == <<duplicates, items, outcome, channel>>
io == <<checks, targetOpened, dirsRead, hashed, globbed>>
vars == <<inputs, pc, uri, targetMD5, walk, result, io, steps>>

\* ------------------------------------------------------------ file access
\* fs.existsSync
existsSync(p) == p \in Paths

\* The bytes of a file: the files of `same` hold <<0,1>>, every other file
\* holds bytes of its own (1 followed by as many 0s as its place in NodeSeq).
Bytes(p) ==
  IF p \in same THEN <<0, 1>>
  ELSE LET i == CHOOSE k \in 1..Len(NodeSeq) : NodeSeq[k].path = p
       IN  <<1>> \o [j \in 1..i |-> 0]

\* The digest of a byte stream, updated chunk by chunk: deterministic,
\* order-sensitive and free of collisions on the fixture's contents.
RECURSIVE Digest(_)
Digest(b) ==
  IF b = <<>> THEN 0 ELSE Digest(SubSeq(b, 1, Len(b) - 1)) * 3 + b[Len(b)] + 1

\* calculateMD5: rejects when the stream errors (missing, a directory, denied).
calculateMD5(p) ==
  IF p \notin Paths \/ p \in denied THEN [ok |-> FALSE, md5 |-> -1]
  ELSE IF KindOf(p) = "dir" THEN [ok |-> FALSE, md5 |-> -1]
  ELSE [ok |-> TRUE, md5 |-> Digest(Bytes(p))]

Ordered(s) == IF order = "rev" THEN Reverse(s) ELSE s

\* fs.promises.readdir(dir, {withFileTypes: true}): the Dirents of dir, or a
\* rejection.  A Dirent of a symbolic link is neither isFile nor isDirectory.
readdir(dir) ==
  IF dir \notin Paths \/ dir \in denied THEN [ok |-> FALSE, entries |-> <<>>]
  ELSE IF KindOf(dir) # "dir" THEN [ok |-> FALSE, entries |-> <<>>]
  ELSE LET Child(n) == Len(n.path) = Len(dir) + 1 /\ IsPrefix(dir, n.path)
           kids == SelectSeq(NodeSeq, Child)
       IN  [ok |-> TRUE,
            entries |-> Ordered([i \in 1..Len(kids) |->
                          [name |-> kids[i].path[Len(dir) + 1], kind |-> kids[i].kind]])]

\* path.join(a, b) for normalized segments
join(a, b) == a \o b

\* path.relative(from, to) for a path `to` below `from`
relative(from, to) == SubSeq(to, Len(from) + 1, Len(to))

\* One glob segment against one name: '*' matches any run of characters.
RECURSIVE MatchSeg(_, _)
MatchSeg(p, s) ==
  IF p = <<>> THEN s = <<>>
  ELSE IF Head(p) = "*"
    THEN MatchSeg(Tail(p), s) \/ (s # <<>> /\ MatchSeg(p, Tail(s)))
    ELSE s # <<>> /\ Head(p) = Head(s) /\ MatchSeg(Tail(p), Tail(s))

\* A glob against a relative path: '**' matches any run of segments.
RECURSIVE MatchGlob(_, _)
MatchGlob(pat, path) ==
  IF pat = <<>> THEN path = <<>>
  ELSE IF Head(pat) = star2
    THEN MatchGlob(Tail(pat), path) \/ (path # <<>> /\ MatchGlob(pat, Tail(path)))
    ELSE path # <<>> /\ MatchSeg(Head(pat), Head(path))
           /\ MatchGlob(Tail(pat), Tail(path))

\* The exclude argument '**/node_modules/**'
excludeGlob == <<star2, n_node_modules, star2>>

\* vscode.workspace.findFiles(pattern, '**/node_modules/**'): the files of the
\* workspace folder whose workspace-relative path matches the pattern and not
\* the exclude glob (symbolic links to files are followed), or a rejection.
findFiles(pattern) ==
  IF pattern \in badPats THEN [ok |-> FALSE, files |-> <<>>]
  ELSE LET Hit(n) == /\ n.kind # "dir"
                     /\ IsPrefix(workspaceRoot, n.path)
                     /\ MatchGlob(pattern, relative(workspaceRoot, n.path))
                     /\ ~MatchGlob(excludeGlob, relative(workspaceRoot, n.path))
           hits == SelectSeq(NodeSeq, Hit)
       IN  [ok |-> TRUE, files |-> Ordered([i \in 1..Len(hits) |-> hits[i].path])]


\* ------------------------------------------------------- the configuration
\* config.get('imageExtensions') || ['.png', '.jpg', '.jpeg', '.gif', '.bmp', '.webp']
imageExtensions == IF extSetting.set THEN extSetting.value ELSE DefaultExtensions

targetPath == uri.fsPath

\* Faulty skip rules: one forgets node_modules, one forgets dot-named entries.
Skipped_dotOnly(name) == startsWithDot(name)
Skipped_nodeModulesOnly(name) == name = n_node_modules

\* The walkers skip an entry named node_modules or starting with '.'.
Skipped(name) == name = n_node_modules \/ startsWithDot(name)

\* Faulty filter: the file's extension is compared without lowercasing it.
WalkerAccepts_caseSensitive(p) ==
  includes(normalizedExtensions(imageExtensions), extnameOfPath(p))

\* The walkers' extension filter on a file name or path.
WalkerAccepts(p) ==
  includes(normalizedExtensions(imageExtensions), toLowerCase(extnameOfPath(p)))

\* The handler's extension check on the target path.
TargetIsImage(p) == includes(imageExtensions, toLowerCase(extnameOfPath(p)))

\* The handler's (variant A) or scan function's (variant B) choice of walker.
Recursive == variant = "A" \/ Len(searchPaths) = 0

\* The directories walked recursively.
searchRoots ==
  IF variant = "A" /\ Len(searchPaths) > 0
    THEN [i \in 1..Len(searchPaths) |-> join(workspaceRoot, searchPaths[i])]
    ELSE <<workspaceRoot>>

NumSpecs == IF Recursive THEN Len(searchRoots) ELSE Len(searchPaths)

\* rootPath of the running scan function (relative paths are taken from it).
rootPath == IF Recursive THEN searchRoots[rootIdx] ELSE workspaceRoot

ImageInfo(p, md5) == [filePath |-> p, md5 |-> md5, relativePath |-> relative(rootPath, p)]

\* Faulty lookup: every scanned record counts as a match.
findDuplicates_noFilter(md5, list) == list

\* findDuplicates(targetMD5, allImages)
findDuplicates(md5, list) ==
  LET Same(img) == img.md5 = md5 IN SelectSeq(list, Same)

\* duplicates.filter(img => img.filePath !== targetPath)
otherDuplicates(list, target) ==
  LET Other(img) == img.filePath # target IN SelectSeq(list, Other)

\* quickPick.items of showDuplicatesQuickPick(duplicates, targetPath)
quickPickItems(list, target) ==
  LET filtered == otherDuplicates(list, target)
  IN  [i \in 1..Len(filtered) |->
         [filePath |-> filtered[i].filePath, detail |-> filtered[i].relativePath]]

\* ----------------------------------------------------------------- Init
Init ==
  /\ variant \in {"A", "B"}
  /\ invocation \in Invocations
  /\ hasWorkspace \in BOOLEAN
  /\ extSetting \in ExtSettings
  /\ searchPaths \in SeqsUpTo(SearchPool(variant), MaxSearchPaths)
  /\ order \in {"fwd", "rev"}
  /\ same \in {S \in SUBSET SamePool : Cardinality(S) = 0 \/ Cardinality(S) \in 2..MaxSame}
  /\ denied \in SUBSET DeniedPool
  /\ badPats \in SUBSET BadPatPool
  /\ Cardinality(denied) + Cardinality(badPats) <= MaxFaults
  \* Without a workspace folder neither variant reads the search settings
  \* or enumerates anything: those inputs are left at their defaults.
  /\ ~hasWorkspace => searchPaths = <<>> /\ order = "fwd" /\ badPats = {} /\ same = {}
  /\ pc = "uri"
  /\ uri = Absent
  /\ targetMD5 = -1
  /\ rootIdx = 1
  /\ inRoot = FALSE
  /\ stack = <<>>
  /\ files = <<>>
  /\ images = <<>>
  /\ allImages = <<>>
  /\ duplicates = <<>>
  /\ items = <<>>
  /\ outcome = "none"
  /\ channel = "none"
  /\ checks = {}
  /\ targetOpened = FALSE
  /\ dirsRead = {}
  /\ hashed = {}
  /\ globbed = {}
  /\ steps = 0

\* --------------------------------------------------------------- handler
\* showErrorMessage(...); return
Fail(o) == pc' = "done" /\ outcome' = o /\ channel' = "error"
\* showInformationMessage(...)
Inform(o) == pc' = "done" /\ outcome' = o /\ channel' = "info"

\* The uri argument, else the active editor's document, else an error.
ResolveUri ==
  /\ pc = "uri"
  /\ steps' = steps + 1
  /\ uri' = IF invocation.uri.present THEN invocation.uri ELSE invocation.editor
  /\ IF uri'.present
       THEN pc' = "exists" /\ UNCHANGED <<outcome, channel>>
       ELSE Fail("NoUri")
  /\ UNCHANGED <<inputs, targetMD5, walk, duplicates, items, io>>

\* if (!fs.existsSync(targetPath)) ...
CheckExists ==
  /\ pc = "exists"
  /\ steps' = steps + 1
  /\ checks' = checks \cup {"exists"}
  /\ IF existsSync(targetPath)
       THEN pc' = "ext" /\ UNCHANGED <<outcome, channel>>
       ELSE Fail("FileNotFound")
  /\ UNCHANGED <<inputs, uri, targetMD5, walk, duplicates, items,
                 targetOpened, dirsRead, hashed, globbed>>

\* if (!imageExtensions.includes(ext)) ...
CheckExt ==
  /\ pc = "ext"
  /\ steps' = steps + 1
  /\ checks' = checks \cup {"ext"}
  /\ IF TargetIsImage(targetPath)
       THEN pc' = (IF variant = "A" THEN "hash" ELSE "workspace")
            /\ UNCHANGED <<outcome, channel>>
       ELSE Fail("NotAnImage")
  /\ UNCHANGED <<inputs, uri, targetMD5, walk, duplicates, items,
                 targetOpened, dirsRead, hashed, globbed>>

\* Faulty target hash: a rejection is swallowed and the handler goes on.
HashTarget_swallow ==
  /\ pc = "hash"
  /\ steps' = steps + 1
  /\ targetOpened' = TRUE
  /\ LET r == calculateMD5(targetPath)
     IN  /\ targetMD5' = (IF r.ok THEN r.md5 ELSE 0)
         /\ pc' = (IF variant = "A" THEN "workspace" ELSE "scan")
  /\ UNCHANGED <<inputs, uri, walk, result, checks, dirsRead, hashed, globbed>>

\* targetMD5 = await calculateMD5(targetPath); a rejection reaches the catch.
HashTarget ==
  /\ pc = "hash"
  /\ steps' = steps + 1
  /\ targetOpened' = TRUE
  /\ LET r == calculateMD5(targetPath)
     IN  IF r.ok
           THEN /\ targetMD5' = r.md5
                /\ pc' = (IF variant = "A" THEN "workspace" ELSE "scan")
                /\ UNCHANGED <<outcome, channel>>
           ELSE Fail("IOError") /\ UNCHANGED targetMD5
  /\ UNCHANGED <<inputs, uri, walk, duplicates, items,
                 checks, dirsRead, hashed, globbed>>

\* if (!workspaceFolders || workspaceFolders.length === 0) ...
CheckWorkspace ==
  /\ pc = "workspace"
  /\ steps' = steps + 1
  /\ checks' = checks \cup {"workspace"}
  /\ IF hasWorkspace
       THEN pc' = (IF variant = "A" THEN "scan" ELSE "hash")
            /\ UNCHANGED <<outcome, channel>>
       ELSE Fail("NoWorkspace")
  /\ UNCHANGED <<inputs, uri, targetMD5, walk, duplicates, items,
                 targetOpened, dirsRead, hashed, globbed>>

\* ---------------------------------------------------------------- walkers
\* scanDirectory(dir) up to its readdir: a new activation, or (the rejection
\* being caught and logged) none.
scanDirectory(dir) ==
  LET r == readdir(dir)
  IN  IF r.ok THEN <<[dir |-> dir, entries |-> r.entries]>> ELSE <<>>

\* Recursive mode: the next search root.  Variant A skips a root that does
\* not exist; otherwise scanImageFiles / scanImageFilesDefault starts on it.
CanBeginRoot == pc = "scan" /\ Recursive /\ ~inRoot /\ rootIdx <= NumSpecs

BeginRoot ==
  /\ CanBeginRoot
  /\ steps' = steps + 1
  /\ LET root == searchRoots[rootIdx]
     IN  IF variant = "A" /\ ~existsSync(root)
           THEN /\ rootIdx' = rootIdx + 1
                /\ UNCHANGED <<inRoot, stack, images, dirsRead>>
           ELSE /\ inRoot' = TRUE
                /\ images' = <<>>
                /\ stack' = scanDirectory(root)
                /\ dirsRead' = dirsRead \cup {root}
                /\ UNCHANGED rootIdx
  /\ UNCHANGED <<inputs, pc, uri, targetMD5, files, allImages, result,
                 checks, targetOpened, hashed, globbed>>

\* One iteration of `for (const entry of entries)` in the innermost
\* scanDirectory activation.
CanVisitEntry ==
  /\ pc = "scan" /\ Recursive /\ inRoot /\ stack # <<>>
  /\ stack[Len(stack)].entries # <<>>

\* Faulty loop body: the hash is not wrapped in its own try/catch, so a
\* rejection reaches the catch around readdir and ends the activation.
VisitEntry_noInnerCatch ==
  /\ CanVisitEntry
  /\ steps' = steps + 1
  /\ LET top == stack[Len(stack)]
         below == SubSeq(stack, 1, Len(stack) - 1)
         entry == Head(top.entries)
         fullPath == join(top.dir, <<entry.name>>)
         rest == below \o <<[dir |-> top.dir, entries |-> Tail(top.entries)]>>
     IN  IF Skipped(entry.name)
           THEN stack' = rest /\ UNCHANGED <<images, dirsRead, hashed>>
         ELSE IF entry.kind = "dir"
           THEN /\ stack' = rest \o scanDirectory(fullPath)
                /\ dirsRead' = dirsRead \cup {fullPath}
                /\ UNCHANGED <<images, hashed>>
         ELSE IF entry.kind = "file" /\ WalkerAccepts(<<entry.name>>)
           THEN /\ hashed' = hashed \cup {fullPath}
                /\ LET r == calculateMD5(fullPath)
                   IN  IF r.ok
                         THEN /\ stack' = rest
                              /\ images' = Append(images, ImageInfo(fullPath, r.md5))
                         ELSE stack' = below /\ UNCHANGED images
                /\ UNCHANGED dirsRead
         ELSE stack' = rest /\ UNCHANGED <<images, dirsRead, hashed>>
  /\ UNCHANGED <<inputs, pc, uri, targetMD5, rootIdx, inRoot, files, allImages,
                 result, checks, targetOpened, globbed>>

VisitEntry ==
  /\ CanVisitEntry
  /\ steps' = steps + 1
  /\ LET top == stack[Len(stack)]
         below == SubSeq(stack, 1, Len(stack) - 1)
         entry == Head(top.entries)
         fullPath == join(top.dir, <<entry.name>>)
         rest == below \o <<[dir |-> top.dir, entries |-> Tail(top.entries)]>>
     IN  IF Skipped(entry.name)
           THEN stack' = rest /\ UNCHANGED <<images, dirsRead, hashed>>
         ELSE IF entry.kind = "dir"
           THEN /\ stack' = rest \o scanDirectory(fullPath)
                /\ dirsRead' = dirsRead \cup {fullPath}
                /\ UNCHANGED <<images, hashed>>
         ELSE IF entry.kind = "file" /\ WalkerAccepts(<<entry.name>>)
           THEN /\ stack' = rest
                /\ hashed' = hashed \cup {fullPath}
                /\ LET r == calculateMD5(fullPath)
                   IN  images' = IF r.ok
                                   THEN Append(images, ImageInfo(fullPath, r.md5))
                                   ELSE images
                /\ UNCHANGED dirsRead
         ELSE stack' = rest /\ UNCHANGED <<images, dirsRead, hashed>>
  /\ UNCHANGED <<inputs, pc, uri, targetMD5, rootIdx, inRoot, files, allImages,
                 result, checks, targetOpened, globbed>>

\* The innermost scanDirectory activation has no entry left and returns.
CanReturnDir ==
  /\ pc = "scan" /\ Recursive /\ inRoot /\ stack # <<>>
  /\ stack[Len(stack)].entries = <<>>

ReturnDir ==
  /\ CanReturnDir
  /\ steps' = steps + 1
  /\ stack' = SubSeq(stack, 1, Len(stack) - 1)
  /\ UNCHANGED <<inputs, pc, uri, targetMD5, rootIdx, inRoot, files, images,
                 allImages, result, io>>

\* The scan function returns its images; variant A appends them to the
\* handler's list (images.push(...scannedImages)).
CanEndRoot == pc = "scan" /\ Recursive /\ inRoot /\ stack = <<>>

EndRoot ==
  /\ CanEndRoot
  /\ steps' = steps + 1
  /\ inRoot' = FALSE
  /\ rootIdx' = rootIdx + 1
  /\ allImages' = IF variant = "A" THEN allImages \o images ELSE images
  /\ UNCHANGED <<inputs, pc, uri, targetMD5, stack, files, images, result, io>>

\* Pattern mode: findFiles on the next pattern; a rejection is caught and
\* the pattern is given up.
CanFindFiles == pc = "scan" /\ ~Recursive /\ ~inRoot /\ rootIdx <= NumSpecs

FindFiles ==
  /\ CanFindFiles
  /\ steps' = steps + 1
  /\ globbed' = globbed \cup {searchPaths[rootIdx]}
  /\ LET r == findFiles(searchPaths[rootIdx])
     IN  IF r.ok
           THEN inRoot' = TRUE /\ files' = r.files /\ UNCHANGED rootIdx
           ELSE rootIdx' = rootIdx + 1 /\ UNCHANGED <<inRoot, files>>
  /\ UNCHANGED <<inputs, pc, uri, targetMD5, stack, images, allImages, result,
                 checks, targetOpened, dirsRead, hashed>>

\* One iteration of `for (const file of files)`.
CanVisitFile == pc = "scan" /\ ~Recursive /\ inRoot /\ files # <<>>

VisitFile ==
  /\ CanVisitFile
  /\ steps' = steps + 1
  /\ LET filePath == Head(files)
     IN  /\ files' = Tail(files)
         /\ IF WalkerAccepts(filePath)
              THEN /\ hashed' = hashed \cup {filePath}
                   /\ LET r == calculateMD5(filePath)
                      IN  images' = IF r.ok
                                      THEN Append(images, ImageInfo(filePath, r.md5))
                                      ELSE images
              ELSE UNCHANGED <<hashed, images>>
  /\ UNCHANGED <<inputs, pc, uri, targetMD5, rootIdx, inRoot, stack, allImages,
                 result, checks, targetOpened, dirsRead, globbed>>

\* The results of one pattern are exhausted.
CanEndPattern == pc = "scan" /\ ~Recursive /\ inRoot /\ files = <<>>

EndPattern ==
  /\ CanEndPattern
  /\ steps' = steps + 1
  /\ inRoot' = FALSE
  /\ rootIdx' = rootIdx + 1
  /\ UNCHANGED <<inputs, pc, uri, targetMD5, stack, files, images, allImages,
                 result, io>>

\* Every root / pattern is done: the handler receives the scan result.
CanEndScan == pc = "scan" /\ ~inRoot /\ rootIdx > NumSpecs

EndScan ==
  /\ CanEndScan
  /\ steps' = steps + 1
  /\ pc' = "resolve"
  /\ allImages' = IF Recursive THEN allImages ELSE images
  /\ UNCHANGED <<inputs, uri, targetMD5, rootIdx, inRoot, stack, files, images,
                 result, io>>

\* findDuplicates and the two "nothing found" exits.
Resolve ==
  /\ pc = "resolve"
  /\ steps' = steps + 1
  /\ duplicates' = findDuplicates(targetMD5, allImages)
  /\ IF Len(duplicates') = 0
       THEN Inform("NoneFound")
     ELSE IF Len(otherDuplicates(duplicates', targetPath)) = 0
       THEN Inform("OnlySelfFound")
     ELSE pc' = "show" /\ UNCHANGED <<outcome, channel>>
  /\ UNCHANGED <<inputs, uri, targetMD5, walk, items, io>>

\* showDuplicatesQuickPick(duplicates, targetPath)
ShowQuickPick ==
  /\ pc = "show"
  /\ steps' = steps + 1
  /\ items' = quickPickItems(duplicates, targetPath)
  /\ pc' = "done" /\ outcome' = "DuplicatesFound" /\ channel' = "quickpick"
  /\ UNCHANGED <<inputs, uri, targetMD5, walk, duplicates, io>>

Next ==
  \/ ResolveUri
  \/ CheckExists
  \/ CheckExt
  \/ HashTarget
  \/ CheckWorkspace
  \/ BeginRoot
  \/ VisitEntry
  \/ ReturnDir
  \/ EndRoot
  \/ FindFiles
  \/ VisitFile
  \/ EndPattern
  \/ EndScan
  \/ Resolve
  \/ ShowQuickPick

Spec == Init /\ [][Next]_vars

\* ============================================================== properties
ThreeOutcomes == {"NoneFound", "OnlySelfFound", "DuplicatesFound"}

\* The file the invocation is about (argument, else the active editor).
GivenTarget ==
  IF invocation.uri.present THEN invocation.uri.fsPath ELSE invocation.editor.fsPath
TargetGiven == invocation.uri.present \/ invocation.editor.present

\* A walker has touched the tree.
WalkStarted == dirsRead # {} \/ hashed # {} \/ globbed # {}

\* The extension of p equals a configured extension, letter case ignored.
ExtConfigured(p) ==
  \E i \in 1..Len(imageExtensions) :
    toLowerCase(imageExtensions[i]) = toLowerCase(extnameOfPath(p))

ExcludedName(n) == n = n_node_modules \/ (Len(n) > 0 /\ n[1] = ".")

\* p is a regular image file below root that the recursive walk can get to:
\* no component below the root is excluded, every directory on the way can
\* be listed and the file can be read.
RecReach(root, p) ==
  /\ root \in Paths /\ p \in Paths
  /\ KindOf(root) = "dir" /\ KindOf(p) = "file"
  /\ Len(p) > Len(root) /\ IsPrefix(root, p)
  /\ \A k \in (Len(root) + 1)..Len(p) : ~ExcludedName(p[k])
  /\ \A k \in Len(root)..(Len(p) - 1) : SubSeq(p, 1, k) \notin denied
  /\ p \notin denied
  /\ ExtConfigured(p)

\* p is an image file of the workspace that pattern pat yields: the pattern
\* resolves, matches p, p is not below node_modules and p can be read.
GlobReach(pat, p) ==
  /\ pat \notin badPats
  /\ p \in FilePaths
  /\ Len(p) > Len(workspaceRoot) /\ IsPrefix(workspaceRoot, p)
  /\ MatchGlob(pat, SubSeq(p, Len(workspaceRoot) + 1, Len(p)))
  /\ \A k \in (Len(workspaceRoot) + 1)..Len(p) : p[k] # n_node_modules
  /\ p \notin denied
  /\ ExtConfigured(p)

\* The i-th configured search root / pattern yields p.
Reach(i, p) ==
  IF Recursive THEN RecReach(searchRoots[i], p) ELSE GlobReach(searchPaths[i], p)

Covered(p) == \E i \in 1..NumSpecs : Reach(i, p)

\* Files other than the target that hold the target's bytes.
OtherCopies == {p \in FilePaths : p # targetPath /\ Bytes(p) = Bytes(targetPath)}

Occurrences(list, p) == Cardinality({i \in 1..Len(list) : list[i].filePath = p})

\* ---------------------------------------------------------------------- C1
\* C1: after validation and the target hash succeeded the handler reports
\* exactly one of NoneFound / OnlySelfFound / DuplicatesFound, decided by the
\* scanned records alone: NoneFound iff no record has the target's
\* fingerprint, OnlySelfFound iff some have but all of them at the target's
\* path, DuplicatesFound otherwise; the list shown is exactly the records
\* with the target's fingerprint and another path, in scan order.
C1_OutcomeFromRecords ==
  (pc = "done" /\ channel # "error") =>
    LET matches == {i \in 1..Len(allImages) : allImages[i].md5 = targetMD5}
        others == {i \in matches : allImages[i].filePath # targetPath}
        Keep(img) == img.md5 = targetMD5 /\ img.filePath # targetPath
        shown == SelectSeq(allImages, Keep)
    IN  /\ outcome \in ThreeOutcomes
        /\ (outcome = "NoneFound") <=> (matches = {})
        /\ (outcome = "OnlySelfFound") <=> (matches # {} /\ others = {})
        /\ (outcome = "DuplicatesFound") <=> (others # {})
        /\ outcome = "DuplicatesFound" =>
             /\ Len(items) = Len(shown)
             /\ \A i \in 1..Len(items) : items[i].filePath = shown[i].filePath
        /\ outcome # "DuplicatesFound" => items = <<>>

\* A scan that found the target itself, a copy of it and an unrelated image.
C1_Witness ==
  /\ pc = "done" /\ outcome = "DuplicatesFound" /\ Len(items) >= 1
  /\ \E i \in 1..Len(allImages) : allImages[i].filePath = targetPath
  /\ \E i \in 1..Len(allImages) : allImages[i].md5 # targetMD5

\* ---------------------------------------------------------------------- C2
\* C2: for a readable image target T and a tree holding exactly one other
\* file P with T's bytes, P being an image some configured root or pattern
\* yields, the handler reports DuplicatesFound and shows exactly one entry,
\* the one of P.
C2_ExactlyTheCopy ==
  (pc = "done" /\ channel # "error"
     /\ Cardinality(OtherCopies) = 1 /\ (\A p \in OtherCopies : Covered(p)))
    => /\ outcome = "DuplicatesFound"
       /\ Len(items) = 1
       /\ items[1].filePath \in OtherCopies

\* ---------------------------------------------------------------------- C3
\* The target lies under a scanned root / is matched by a search pattern.
UnderScannedRoots ==
  \E i \in 1..NumSpecs :
    IF Recursive
      THEN searchRoots[i] \in Paths /\ IsPrefix(searchRoots[i], targetPath)
      ELSE /\ IsPrefix(workspaceRoot, targetPath)
           /\ MatchGlob(searchPaths[i], SubSeq(targetPath, Len(workspaceRoot) + 1,
                                               Len(targetPath)))

NoCopyScanned == \A p \in OtherCopies : ~Covered(p)

\* C3 as stated (read on runs where nothing fails to open, list or resolve):
\* with no other file of the target's content in the scanned tree,
\* OnlySelfFound when the target lies under a scanned root (or matches a
\* pattern), NoneFound when it does not.
C3_SelfIffUnderRoot ==
  (pc = "done" /\ channel # "error" /\ NoCopyScanned /\ denied = {} /\ badPats = {}) =>
    IF UnderScannedRoots THEN outcome = "OnlySelfFound" ELSE outcome = "NoneFound"

\* C3 as amended: with no other file of the target's content among the
\* scanned records, OnlySelfFound when a walker reaches the target (it lies
\* below a scanned root with no node_modules or dot-named component below
\* that root and every directory on the way can be listed, or a resolving
\* pattern matches it outside node_modules), NoneFound otherwise.
C3_SelfIffReached ==
  (pc = "done" /\ channel # "error" /\ NoCopyScanned) =>
    IF Covered(targetPath) THEN outcome = "OnlySelfFound" ELSE outcome = "NoneFound"

\* A target inside node_modules below the walked workspace root: under a
\* scanned root, not reached, and other images did get records.
C3_Witness ==
  /\ pc = "done" /\ outcome = "NoneFound" /\ NoCopyScanned
  /\ UnderScannedRoots /\ ~Covered(targetPath)
  /\ workspaceRoot \in dirsRead /\ Len(allImages) > 0

\* ---------------------------------------------------------------------- C4
\* One of the four fatal conditions holds for the invocation.
FatalCondition ==
  /\ TargetGiven
  /\ \/ GivenTarget \notin Paths
     \/ ~ExtConfigured(GivenTarget)
     \/ ~hasWorkspace
     \/ GivenTarget \in denied

\* C4: when the target is missing, is no image by extension, no workspace
\* folder is open or the target cannot be read, no directory is ever read,
\* no candidate hashed, no pattern resolved, none of the three outcomes is
\* reported and the handler ends with an error message.
C4_FatalStopsBeforeWalk ==
  FatalCondition =>
    /\ ~WalkStarted
    /\ outcome \notin ThreeOutcomes
    /\ pc \notin {"scan", "resolve", "show"}
    /\ pc = "done" => channel = "error"

\* The unreadable target of an otherwise valid invocation, workspace open.
C4_Witness ==
  /\ pc = "done" /\ outcome = "IOError" /\ hasWorkspace
  /\ GivenTarget \in denied /\ checks = {"exists", "ext", "workspace"}

\* ---------------------------------------------------------------------- C5
\* C5 (records): once the scan is over, every image file has exactly one
\* record per root / pattern that yields it, failures taken into account:
\* only the unreadable file, the subtree of the unlistable directory and the
\* results of the failing pattern are missing.
C5_RecordsComplete ==
  pc \in {"resolve", "show", "done"} /\ channel # "error" =>
    /\ \A p \in FilePaths :
         Occurrences(allImages, p) = Cardinality({i \in 1..NumSpecs : Reach(i, p)})
    /\ \A i \in 1..Len(allImages) :
         /\ allImages[i].filePath \in FilePaths
         /\ allImages[i].md5 = Digest(Bytes(allImages[i].filePath))

\* The most steps a handler run can take: the fixed steps around the scan
\* and, per root / pattern, one step per tree node visited or returned from.
StepLimit == 8 + NumSpecs * (2 * Len(NodeSeq) + 2)

\* Some step of the scan phase can be taken.
ScanCanStep ==
  \/ CanBeginRoot \/ CanVisitEntry \/ CanReturnDir \/ CanEndRoot
  \/ CanFindFiles \/ CanVisitFile \/ CanEndPattern \/ CanEndScan

\* C5: once the walk has started no failing candidate file, directory or
\* pattern aborts it: no error is reported, the scan always has a next step
\* until it hands over to the outcome resolution (which is two
\* unconditional steps), the handler is done within StepLimit steps, it ends
\* with one of the three outcomes, and the records are complete up to the
\* failed items.
C5_ScanSurvivesFailures ==
  /\ C5_RecordsComplete
  /\ WalkStarted => channel # "error"
  /\ pc = "scan" => ScanCanStep
  /\ steps <= StepLimit
  /\ (pc = "done" /\ WalkStarted) => outcome \in ThreeOutcomes

\* A finished scan in which a directory could not be listed (its subtree is
\* missing) and other files still got their records.
C5_Witness ==
  /\ pc = "done" /\ outcome \in ThreeOutcomes
  /\ \E d \in denied : d \in dirsRead
  /\ Len(allImages) >= 2

\* ---------------------------------------------------------------------- C6
HasExcludedComponent(p) ==
  \/ \E k \in 1..Len(p) : p[k] = n_node_modules
  \/ \E k \in 1..(Len(p) - 1) : Len(p[k]) > 0 /\ p[k][1] = "."

\* C6 as stated: no record's absolute path has a component named
\* node_modules or a directory component starting with '.'.
C6_NoExcludedAbsolute ==
  /\ \A i \in 1..Len(images) : ~HasExcludedComponent(images[i].filePath)
  /\ \A i \in 1..Len(allImages) : ~HasExcludedComponent(allImages[i].filePath)

RelativeClean(img) ==
  LET rel == img.relativePath
  IN  /\ \A k \in 1..Len(rel) : rel[k] # n_node_modules
      /\ Recursive => \A k \in 1..Len(rel) : ~(Len(rel[k]) > 0 /\ rel[k][1] = ".")

\* C6 as amended: in recursive mode no record's path relative to its search
\* root has a component named node_modules or starting with '.'; in pattern
\* mode no record's path relative to the workspace has a component named
\* node_modules.  (The search root itself may lie inside such a directory,
\* and patterns do yield files of dot-named directories.)
C6_NoExcludedBelowRoot ==
  /\ \A i \in 1..Len(images) : RelativeClean(images[i])
  /\ \A i \in 1..Len(allImages) : RelativeClean(allImages[i])

\* A recursive walk of the workspace root, which holds node_modules and a
\* dot-named directory, has finished with records.
C6_Witness ==
  /\ pc = "done" /\ Recursive /\ searchPaths = <<>>
  /\ workspaceRoot \in dirsRead /\ Len(allImages) >= 3

\* ---------------------------------------------------------------------- C7
\* A recursive scan function has just finished a root, nothing in the tree
\* being unreadable.
RootWalked == pc = "scan" /\ Recursive /\ inRoot /\ stack = <<>> /\ denied = {}

RegularFilesUnder(root) ==
  {p \in FilePaths : KindOf(p) = "file" /\ Len(p) > Len(root) /\ IsPrefix(root, p)}

ExactlyOnce(list, S) ==
  /\ \A p \in S : Occurrences(list, p) = 1
  /\ \A i \in 1..Len(list) : list[i].filePath \in S

\* C7 as stated: the recursive walker yields exactly the regular files under
\* the root whose lowercased extension is in the configured extension set.
C7_AllImagesUnderRoot ==
  RootWalked =>
    ExactlyOnce(images,
      {p \in RegularFilesUnder(rootPath) :
         \E i \in 1..Len(imageExtensions) :
           imageExtensions[i] = toLowerCase(extnameOfPath(p))})

\* C7 as amended: with every file readable and every directory listable,
\* the recursive walker yields exactly the regular files below the root that
\* have no component below the root named node_modules or starting with '.'
\* and whose extension equals a configured one ignoring letter case.
C7_AllReachableImages ==
  RootWalked =>
    ExactlyOnce(images,
      {p \in RegularFilesUnder(rootPath) :
         /\ \A k \in (Len(rootPath) + 1)..Len(p) : ~ExcludedName(p[k])
         /\ ExtConfigured(p)})

\* The walk of the whole workspace has returned: files in two directory
\* levels, an upper-case extension among them.
C7_Witness ==
  /\ RootWalked /\ rootPath = workspaceRoot
  /\ \E i \in 1..Len(images) : images[i].filePath = <<n_w, n_B_PNG>>
  /\ \E i \in 1..Len(images) : images[i].filePath = <<n_w, n_s, n_d, n_e_png>>

\* ---------------------------------------------------------------------- C8
\* C8: the three validation checks are complete before the target is opened
\* for hashing, the target's hash is known before any directory is read,
\* pattern resolved or candidate hashed, and the outcome is resolved only
\* after every root / pattern is exhausted.
C8_PhaseOrder ==
  /\ targetOpened => {"exists", "ext", "workspace"} \subseteq checks
  /\ WalkStarted => targetMD5 # -1
  /\ pc \in {"resolve", "show"} \/ outcome \in ThreeOutcomes
       => rootIdx > NumSpecs /\ ~inRoot

\* ---------------------------------------------------------------------- C9
\* C9: the scanned records never hold two records with the same absolute
\* path, whatever the configured roots or patterns.
C9_UniquePaths ==
  /\ \A i, j \in 1..Len(allImages) :
       i # j => allImages[i].filePath # allImages[j].filePath
  /\ \A i, j \in 1..Len(images) :
       i # j => images[i].filePath # images[j].filePath

\* --------------------------------------------------------------------- C10
\* C10: target validation and the walkers accept a file exactly when its
\* extension equals a configured extension ignoring letter case, so they
\* accept the same files.
C10_CaseInsensitiveFilter ==
  /\ (("ext" \in checks) /\ pc # "ext") =>
       ((outcome = "NotAnImage") <=> ~ExtConfigured(targetPath))
  /\ \A i \in 1..Len(images) : ExtConfigured(images[i].filePath)
  /\ ("ext" \in checks) =>
       \A p \in FilePaths : TargetIsImage(p) <=> WalkerAccepts(p)

====
